---- MODULE Spec2Model ----
(***************************************************************************)
(* PaymentAnalytics (payment_intelligence/etl_logic.py) as a state machine. *)
(*                                                                         *)
(* The repository ships two copies of etl_logic.py:                        *)
(*   copy = "src" : src/src/payment_intelligence/etl_logic.py              *)
(*   copy = "top" : src/payment_intelligence/etl_logic.py                  *)
(* Every operation is modelled once per copy (suffix _src / _top) and the  *)
(* action of the same name dispatches on the copy the instance was built   *)
(* from.                                                                   *)
(*                                                                         *)
(* Representation.  A table is the set of its rows; a row is a record of   *)
(* the columns the queries read.  Dates are records [y, m, d]; money is an *)
(* integer number of cents (DECIMAL(10,2)); a SQL NULL string is the value *)
(* Null, a nullable number is a record [isnull, num, den] standing for the *)
(* rational num/den.  Arithmetic is exact (the engine's DOUBLE results are *)
(* modelled by the rationals they approximate).                            *)
(***************************************************************************)
EXTENDS Integers, Sequences, FiniteSets, TLC

VARIABLES
    copy,           \* which etl_logic.py the instance comes from
    today,          \* CURRENT_DATE of the engine
    files,          \* the three CSV snapshots in data_dir
    conn,           \* the DuckDB connection: created tables, their rows, indexes
    tables_loaded,  \* self.tables_loaded (src) / self._data_loaded (top)
    called,         \* the operation invoked last, with its argument
    raised,         \* the exception the last operation ended with
    result,         \* the rows the last metric operation returned
    first_call,     \* history: the first metric call since the last load_data
    app             \* app.load_analytics: the data directory and its invocations

vars == <<copy, today, files, conn, tables_loaded, called, raised, result, first_call, app>>

Copies == {"src", "top"}

(***************************************************************************)
(* Values                                                                  *)
(***************************************************************************)
Null == "NULL"

NoError == [type |-> "none", cause |-> "none"]

Error(t) == [type |-> t, cause |-> "none"]

\* top: except Exception as e: raise RuntimeError(...) from e
Wrapped(t) == [type |-> "RuntimeError", cause |-> t]

NullNum == [isnull |-> TRUE, num |-> 0, den |-> 1]

Frac(n, d) == [isnull |-> FALSE, num |-> n, den |-> d]

Num(n) == Frac(n, 1)

Abs(x) == IF x < 0 THEN -x ELSE x

Max(S) == CHOOSE x \in S : \A y \in S : y <= x

Min(S) == CHOOSE x \in S : \A y \in S : x <= y

\* ROUND(x, 2) of the rational 100*n/d percent, as an integer number of
\* hundredths: DuckDB rounds half away from zero.
RoundDiv(n, d) ==
    IF n >= 0 THEN (2 * n + d) \div (2 * d)
    ELSE -((2 * (-n) + d) \div (2 * d))

RECURSIVE SumOver(_, _)
\* SUM(f) over the rows of S; f is a function on rows given as [row |-> value]
SumOver(S, f) ==
    IF S = {} THEN 0
    ELSE LET r == CHOOSE x \in S : TRUE
         IN  f[r] + SumOver(S \ {r}, f)

(***************************************************************************)
(* Calendar: DATE_TRUNC('month', d), DATE_DIFF('month', a, b),             *)
(* d - INTERVAL 'n days', d - INTERVAL 'n months'                          *)
(***************************************************************************)
Date(y, m, d) == [y |-> y, m |-> m, d |-> d]

IsLeap(y) == (y % 4 = 0 /\ y % 100 # 0) \/ y % 400 = 0

DaysInMonth(y, m) ==
    IF m = 2 THEN (IF IsLeap(y) THEN 29 ELSE 28)
    ELSE IF m \in {4, 6, 9, 11} THEN 30 ELSE 31

DaysBeforeMonth(y, m) ==
    <<0, 31, 59, 90, 120, 151, 181, 212, 243, 273, 304, 334>>[m]
    + (IF m > 2 /\ IsLeap(y) THEN 1 ELSE 0)

\* Days since 2001-01-01 (years 2001..2099, no century exception inside)
DayNumber(dt) ==
    365 * (dt.y - 2001) + ((dt.y - 2001) \div 4) + DaysBeforeMonth(dt.y, dt.m) + dt.d - 1

MonthIndex(dt) == dt.y * 12 + dt.m - 1

MonthOfIndex(i) == Date(i \div 12, (i % 12) + 1, 1)

DateTrunc(dt) == Date(dt.y, dt.m, 1)

\* DATE_DIFF('month', a, b): number of month boundaries between a and b
DateDiffMonth(a, b) == MonthIndex(b) - MonthIndex(a)

\* dt - INTERVAL 'n months': same day of the earlier month, clamped to its length
MinusMonths(dt, n) ==
    LET f == MonthOfIndex(MonthIndex(dt) - n)
    IN  Date(f.y, f.m, IF dt.d > DaysInMonth(f.y, f.m) THEN DaysInMonth(f.y, f.m) ELSE dt.d)

DateGE(a, b) == DayNumber(a) >= DayNumber(b)

DateLE(a, b) == DayNumber(a) <= DayNumber(b)

\* tx_date >= anchor - INTERVAL 'n days'
WithinDays(dt, anchor, n) == DayNumber(dt) >= DayNumber(anchor) - n

MaxDate(S) == CHOOSE a \in S : \A b \in S : DateLE(b, a)

(***************************************************************************)
(* Rows                                                                    *)
(***************************************************************************)
User(id, signup) == [user_id |-> id, signup_date |-> signup]

Sub(id, uid, mrr, st, start) ==
    [sub_id |-> id, user_id |-> uid, mrr_amount |-> mrr, status |-> st, start_date |-> start]

Tx(id, sid, gw, st, err, dt, amt, ctry) ==
    [tx_id |-> id, sub_id |-> sid, gateway |-> gw, status |-> st, error_code |-> err,
     tx_date |-> dt, amount |-> amt, country |-> ctry]

\* The label each copy's data generator writes for a cancelled subscription
ChurnedLabel(c) == IF c = "src" THEN "Churned" ELSE "Cancelled"

File(rows) == [exists |-> TRUE, rows |-> rows]

MissingFile == [exists |-> FALSE, rows |-> {}]

Snapshot(u, s, t) ==
    [users |-> File(u), subscriptions |-> File(s), transactions |-> File(t),
     error_code_column |-> TRUE]

NewConn ==
    [created |-> {}, users |-> {}, subscriptions |-> {}, transactions |-> {},
     error_code |-> FALSE, indexes |-> FALSE]

NoResult == [op |-> "none", rows |-> {}]

NoCall == [op |-> "none", arg |-> Null]

NoFirstCall == [called |-> NoCall, raised |-> NoError, result |-> NoResult, others |-> FALSE]

\* The history after a metric call: the first call since load_data with its
\* outcome, and whether a different call has followed it
Recorded(fc, c, e, r) ==
    IF fc = NoFirstCall THEN [called |-> c, raised |-> e, result |-> r, others |-> FALSE]
    ELSE [fc EXCEPT !.others = @ \/ c # fc.called]

(***************************************************************************)
(* load_data                                                               *)
(***************************************************************************)
\* One CREATE TABLE t AS SELECT ... FROM read_csv_auto(file): the connection
\* after it and the exception it ends with.  select_star is TRUE for the top
\* copy (SELECT *), FALSE for the src copy, which names error_code.
CreateTable(c, f, t, select_star) ==
    IF t \in c.created THEN [conn |-> c, err |-> "CatalogException"]
    ELSE IF ~f[t].exists THEN [conn |-> c, err |-> "IOException"]
    ELSE IF t = "transactions" /\ ~f.error_code_column /\ ~select_star
         THEN [conn |-> c, err |-> "BinderException"]
    ELSE [conn |-> [c EXCEPT !.created = @ \cup {t}, ![t] = f[t].rows,
                             !.error_code = IF t = "transactions"
                                            THEN f.error_code_column ELSE @],
          err |-> "none"]

\* The three CREATE TABLE statements in order, stopping at the first failure
CreateTables(c, f, select_star) ==
    LET a == CreateTable(c, f, "users", select_star)
        b == CreateTable(a.conn, f, "subscriptions", select_star)
        d == CreateTable(b.conn, f, "transactions", select_star)
    IN  IF a.err # "none" THEN a
        ELSE IF b.err # "none" THEN b
        ELSE d

load_data_src(c, f, loaded) ==
    IF ~f.users.exists
    THEN [conn |-> c, loaded |-> loaded, raised |-> Error("FileNotFoundError")]
    ELSE LET t == CreateTables(c, f, FALSE)
         IN  IF t.err # "none"
             THEN [conn |-> t.conn, loaded |-> loaded, raised |-> Error(t.err)]
             ELSE [conn |-> [t.conn EXCEPT !.indexes = TRUE], loaded |-> TRUE,
                   raised |-> NoError]

load_data_top(c, f, loaded) ==
    IF loaded
    THEN [conn |-> c, loaded |-> loaded, raised |-> NoError]
    ELSE LET t == CreateTables(c, f, TRUE)
         IN  IF t.err # "none"
             THEN [conn |-> t.conn, loaded |-> loaded, raised |-> Wrapped(t.err)]
             ELSE IF t.conn.users = {} \/ t.conn.subscriptions = {}
                     \/ t.conn.transactions = {}
             THEN [conn |-> t.conn, loaded |-> loaded, raised |-> Wrapped("ValueError")]
             ELSE [conn |-> [t.conn EXCEPT !.indexes = TRUE], loaded |-> TRUE,
                   raised |-> NoError]

load_data ==
    LET r == IF copy = "src" THEN load_data_src(conn, files, tables_loaded)
             ELSE load_data_top(conn, files, tables_loaded)
    IN  /\ conn' = r.conn
        /\ tables_loaded' = r.loaded
        /\ raised' = r.raised
        /\ called' = [op |-> "load_data", arg |-> Null]
        /\ result' = NoResult
        /\ first_call' = NoFirstCall
        /\ UNCHANGED <<app, copy, today, files>>

\* A metric that hands back the rows of the metric call before it
QueryStale(op, arg, needs, rows) ==
    /\ called' = [op |-> op, arg |-> arg]
    /\ IF needs \subseteq conn.created
       THEN /\ raised' = NoError
            /\ result' = [op |-> op, rows |-> IF result.op = "none" THEN rows ELSE result.rows]
       ELSE /\ raised' = Error("CatalogException")
            /\ result' = NoResult
    /\ first_call' = Recorded(first_call, called', raised', result')

\* A metric that reads the tables in `needs`: a missing table ends the query
\* with a CatalogException, otherwise it returns rows.
Query(op, arg, needs, rows) ==
    /\ called' = [op |-> op, arg |-> arg]
    /\ IF needs \subseteq conn.created
       THEN /\ raised' = NoError
            /\ result' = [op |-> op, rows |-> rows]
       ELSE /\ raised' = Error("CatalogException")
            /\ result' = NoResult
    /\ first_call' = Recorded(first_call, called', raised', result')

(***************************************************************************)
(* get_sankey_data                                                         *)
(***************************************************************************)
Edge(s, t, v) == [source |-> s, target |-> t, value |-> v]

\* src: WHERE ? IS NULL OR country = ?   (a NULL country never equals ?)
InScope_src(t, country_filter) ==
    country_filter = Null \/ (t.country # Null /\ t.country = country_filter)

\* top: country_clause = f"AND country = '{country_filter}'" if country_filter else ""
InScope_top(t, country_filter) ==
    (country_filter = Null \/ country_filter = "")
        \/ (t.country # Null /\ t.country = country_filter)

\* SELECT 'Attempt', gateway, COUNT(*) ... GROUP BY gateway
AttemptEdges(scope) ==
    {Edge("Attempt", g, Cardinality({t \in scope : t.gateway = g})) :
        g \in {t.gateway : t \in scope}}

\* src: CASE WHEN status = 'Success' THEN 'Authorized' WHEN ... END (else NULL)
StatusTarget_src(status) ==
    IF status = "Success" THEN "Authorized"
    ELSE IF status = "Soft Decline" THEN "Soft Decline"
    ELSE IF status = "Hard Decline" THEN "Hard Decline"
    ELSE Null

\* top: CASE status WHEN 'Success' THEN 'Authorized' ELSE 'Declined' END
StatusTarget_top(status) ==
    IF status = "Success" THEN "Authorized" ELSE "Declined"

\* src: SELECT gateway, CASE..., COUNT(*) ... GROUP BY gateway, status
StatusEdges_src(scope) ==
    {Edge(k[1], StatusTarget_src(k[2]),
          Cardinality({t \in scope : t.gateway = k[1] /\ t.status = k[2]})) :
        k \in {<<t.gateway, t.status>> : t \in scope}}

\* top: ... GROUP BY gateway, target
StatusEdges_top(scope) ==
    {Edge(k[1], k[2],
          Cardinality({t \in scope : t.gateway = k[1] /\ StatusTarget_top(t.status) = k[2]})) :
        k \in {<<t.gateway, StatusTarget_top(t.status)>> : t \in scope}}

\* The third block without its status = 'Success' condition
SettledEdgeAnyStatus(scope) ==
    {Edge("Authorized", "Settled", Cardinality(scope))}

\* SELECT 'Authorized', 'Settled', COUNT(*) ... WHERE status = 'Success' AND <scope>:
\* an aggregate without GROUP BY, so the row is there even when the count is 0
SettledEdge(scope) ==
    {Edge("Authorized", "Settled", Cardinality({t \in scope : t.status = "Success"}))}

get_sankey_data_src(txs, country_filter) ==
    LET scope == {t \in txs : InScope_src(t, country_filter)}
        flow_data == AttemptEdges(scope) \cup StatusEdges_src(scope) \cup SettledEdge(scope)
    IN  {e \in flow_data : e.target # Null}

get_sankey_data_top(txs, country_filter) ==
    LET scope == {t \in txs : InScope_top(t, country_filter)}
    IN  AttemptEdges(scope) \cup StatusEdges_top(scope) \cup SettledEdge(scope)

CountryFilters == {Null, "DE", "US", ""}

get_sankey_data ==
    \E f \in CountryFilters :
        /\ Query("get_sankey_data", f, {"transactions"},
                 IF copy = "src" THEN get_sankey_data_src(conn.transactions, f)
                 ELSE get_sankey_data_top(conn.transactions, f))
        /\ UNCHANGED <<app, copy, today, files, conn, tables_loaded>>

(***************************************************************************)
(* calculate_monthly_churn_rate                                            *)
(***************************************************************************)
\* ORDER BY <month> DESC LIMIT n over rows with one row per month; month_of
\* gives each row's month
LatestMonths(rows, month_of, n) ==
    {r \in rows :
        Cardinality({q \in rows : MonthIndex(month_of[q]) > MonthIndex(month_of[r])}) < n}

\* src: FROM users u JOIN subscriptions s ON u.user_id = s.user_id
Cohorts_src(users, subs) ==
    {[cohort_month |-> DateTrunc(p[1].signup_date), user_id |-> p[1].user_id,
      sub_id |-> p[2].sub_id, status |-> p[2].status, start_date |-> p[2].start_date] :
        p \in {q \in users \X subs : q[1].user_id = q[2].user_id}}

\* The total counted over users instead of subscriptions
TotalSubsDistinctUsers(rows) == Cardinality({r.user_id : r \in rows})

\* src: COUNT(DISTINCT sub_id) as total_subs
TotalSubs(rows) == Cardinality({r.sub_id : r \in rows})

\* SUM(CASE WHEN status = <label> THEN 1 ELSE 0 END)
CountStatus(rows, label) == Cardinality({r \in rows : r.status = label})

\* The percentage taken with integer division of the two counts
RatePctIntegerDivision(part, total) ==
    IF total = 0 THEN NullNum ELSE Frac(10000 * (part \div total), 100)

\* src: ROUND(part::DECIMAL / NULLIF(total, 0) * 100, 2)
RatePct(part, total) ==
    IF total = 0 THEN NullNum ELSE Frac(RoundDiv(10000 * part, total), 100)

ChurnLimit == 24

calculate_monthly_churn_rate_src(users, subs) ==
    LET cohorts == Cohorts_src(users, subs)
        cohort_metrics ==
            {LET g == {r \in cohorts : r.cohort_month = mth}
             IN  [cohort_month |-> mth,
                  total_subs |-> TotalSubs(g),
                  churned_subs |-> CountStatus(g, "Churned"),
                  active_subs |-> CountStatus(g, "Active"),
                  past_due_subs |-> CountStatus(g, "Past Due")] :
                mth \in {r.cohort_month : r \in cohorts}}
        rows ==
            {[cohort_month |-> c.cohort_month,
              total_subs |-> c.total_subs,
              churned_subs |-> c.churned_subs,
              active_subs |-> c.active_subs,
              past_due_subs |-> c.past_due_subs,
              churn_rate_pct |-> RatePct(c.churned_subs, c.total_subs),
              retention_rate_pct |-> RatePct(c.active_subs, c.total_subs)] :
                c \in cohort_metrics}
    IN  LatestMonths(rows, [r \in rows |-> r.cohort_month], ChurnLimit)

\* top: churned::FLOAT / NULLIF(total_subs, 0) * 100
FloatPct(part, total) ==
    IF total = 0 THEN NullNum ELSE Frac(100 * part, total)

\* top: 100 - (churned::FLOAT / NULLIF(total_subs, 0) * 100)
FloatPctComplement(part, total) ==
    IF total = 0 THEN NullNum ELSE Frac(100 * total - 100 * part, total)

TrailingMonths == 12

calculate_monthly_churn_rate_top(subs, current_date) ==
    LET recent == {r \in subs : DateGE(r.start_date, MinusMonths(current_date, TrailingMonths))}
        monthly_stats ==
            {LET g == {r \in recent : DateTrunc(r.start_date) = mth}
             IN  [cohort_month |-> mth,
                  total_subs |-> Cardinality(g),
                  churned |-> CountStatus(g, "Cancelled")] :
                mth \in {DateTrunc(r.start_date) : r \in recent}}
    IN  {[cohort_month |-> c.cohort_month,
          total_subs |-> c.total_subs,
          churned |-> c.churned,
          churn_rate_pct |-> FloatPct(c.churned, c.total_subs),
          retention_rate_pct |-> FloatPctComplement(c.churned, c.total_subs)] :
            c \in monthly_stats}

calculate_monthly_churn_rate ==
    /\ IF copy = "src"
       THEN Query("calculate_monthly_churn_rate", Null, {"users", "subscriptions"},
                  calculate_monthly_churn_rate_src(conn.users, conn.subscriptions))
       ELSE Query("calculate_monthly_churn_rate", Null, {"subscriptions"},
                  calculate_monthly_churn_rate_top(conn.subscriptions, today))
    /\ UNCHANGED <<app, copy, today, files, conn, tables_loaded>>

(***************************************************************************)
(* revenue_reconciliation                                                  *)
(***************************************************************************)
\* a - b, NULL when either side is NULL
NullableMinus(a, b) ==
    IF a.isnull \/ b.isnull THEN NullNum ELSE Num(a.num - b.num)

\* The percentage reported as 0 instead of NULL when nothing was booked
VariancePctZeroFilled(cash, booked) ==
    IF booked = 0 THEN Frac(0, 100)
    ELSE Frac(RoundDiv(10000 * (cash - booked), booked), 100)

\* src: ROUND((cash_collected - booked_revenue) / NULLIF(booked_revenue, 0) * 100, 2)
VariancePct_src(cash, booked) ==
    IF booked = 0 THEN NullNum
    ELSE Frac(RoundDiv(10000 * (cash - booked), booked), 100)

\* top: (c.cash_collected - r.booked_revenue) / NULLIF(r.booked_revenue, 0) * 100
VariancePct_top(cash, booked) ==
    IF cash.isnull \/ booked.isnull THEN NullNum
    ELSE IF booked.num = 0 THEN NullNum
    ELSE Frac(100 * (cash.num - booked.num), booked.num)

RevenueLimit == 12

\* src: the statuses whose MRR is booked
BookedStatuses_src == {"Active", "Past Due"}

revenue_reconciliation_src(subs, txs) ==
    LET success == {t \in txs : t.status = "Success"}
        booked == {sb \in subs : sb.status \in BookedStatuses_src}
        combined_revenue ==
            {LET g == {t \in success : DateTrunc(t.tx_date) = mth}
             IN  [month |-> mth, side |-> "cash",
                  cash_collected |-> SumOver(g, [t \in g |-> t.amount]),
                  booked_revenue |-> 0,
                  successful_payments |-> Cardinality(g),
                  total_attempts |-> Cardinality(g),
                  active_subscriptions |-> 0] :
                mth \in {DateTrunc(t.tx_date) : t \in success}}
            \cup
            {LET g == {sb \in booked : DateTrunc(sb.start_date) = mth}
             IN  [month |-> mth, side |-> "booked",
                  cash_collected |-> 0,
                  booked_revenue |-> SumOver(g, [sb \in g |-> sb.mrr_amount]),
                  successful_payments |-> 0,
                  total_attempts |-> 0,
                  active_subscriptions |-> Cardinality({sb.sub_id : sb \in g})] :
                mth \in {DateTrunc(sb.start_date) : sb \in booked}}
        monthly_totals ==
            {LET g == {c \in combined_revenue : c.month = mth}
                 cash == SumOver(g, [c \in g |-> c.cash_collected])
                 bkd == SumOver(g, [c \in g |-> c.booked_revenue])
             IN  [month |-> mth,
                  cash_collected |-> Num(cash),
                  booked_revenue |-> Num(bkd),
                  variance |-> Num(cash - bkd),
                  variance_pct |-> VariancePct_src(cash, bkd),
                  successful_payments |-> Num(SumOver(g, [c \in g |-> c.successful_payments])),
                  total_attempts |-> SumOver(g, [c \in g |-> c.total_attempts]),
                  active_subscriptions |-> SumOver(g, [c \in g |-> c.active_subscriptions])] :
                mth \in {c.month : c \in combined_revenue}}
    IN  LatestMonths(monthly_totals, [r \in monthly_totals |-> r.month], RevenueLimit)

revenue_reconciliation_top(subs, txs) ==
    LET success == {t \in txs : t.status = "Success"}
        active == {sb \in subs : sb.status = "Active"}
        cash_months == {DateTrunc(t.tx_date) : t \in success}
        revenue_months == {DateTrunc(sb.start_date) : sb \in active}
        \* FROM monthly_cash c FULL OUTER JOIN monthly_revenue r ON c.month = r.month
        joined ==
            {LET gc == {t \in success : DateTrunc(t.tx_date) = mth}
                 gr == {sb \in active : DateTrunc(sb.start_date) = mth}
                 cash == IF mth \in cash_months
                         THEN Num(SumOver(gc, [t \in gc |-> t.amount])) ELSE NullNum
                 bkd == IF mth \in revenue_months
                        THEN Num(SumOver(gr, [sb \in gr |-> sb.mrr_amount])) ELSE NullNum
             IN  [month |-> mth,
                  cash_collected |-> cash,
                  booked_revenue |-> bkd,
                  variance |-> NullableMinus(cash, bkd),
                  variance_pct |-> VariancePct_top(cash, bkd),
                  successful_payments |-> IF mth \in cash_months
                                          THEN Num(Cardinality(gc)) ELSE NullNum] :
                mth \in cash_months \cup revenue_months}
    IN  LatestMonths(joined, [r \in joined |-> r.month], RevenueLimit)

revenue_reconciliation ==
    /\ Query("revenue_reconciliation", Null, {"subscriptions", "transactions"},
             IF copy = "src"
             THEN revenue_reconciliation_src(conn.subscriptions, conn.transactions)
             ELSE revenue_reconciliation_top(conn.subscriptions, conn.transactions))
    /\ UNCHANGED <<app, copy, today, files, conn, tables_loaded>>

(***************************************************************************)
(* cohort_retention_analysis                                               *)
(***************************************************************************)
\* src: ROUND(retained_users::DECIMAL / NULLIF(cohort_size, 0) * 100, 1)
RetentionPct(retained, size) ==
    IF size = 0 THEN NullNum ELSE Frac(RoundDiv(1000 * retained, size), 10)

MaxOffset == 12

cohort_retention_analysis_src(users, subs, txs, cohort_months, current_date) ==
    LET cohort_base ==
            {[cohort_month |-> DateTrunc(u.signup_date), user_id |-> u.user_id] : u \in users}
        cohort_size(mth) ==
            Cardinality({cb.user_id : cb \in {x \in cohort_base : x.cohort_month = mth}})
        \* SELECT DISTINCT month of t.tx_date, s.user_id ... WHERE t.status = 'Success'
        user_transaction_months ==
            {[transaction_month |-> DateTrunc(p[1].tx_date), user_id |-> p[2].user_id] :
                p \in {q \in txs \X subs :
                          q[1].sub_id = q[2].sub_id /\ q[1].status = "Success"}}
        \* LEFT JOIN ... ON user_id AND offset BETWEEN 0 AND 12
        \* WHERE utm.transaction_month IS NOT NULL: the unmatched rows are dropped
        matched ==
            {[cohort_month |-> p[1].cohort_month,
              months_since_signup |-> DateDiffMonth(p[1].cohort_month, p[2].transaction_month),
              user_id |-> p[2].user_id] :
                p \in {q \in cohort_base \X user_transaction_months :
                          /\ q[1].user_id = q[2].user_id
                          /\ DateDiffMonth(q[1].cohort_month, q[2].transaction_month)
                                \in 0..MaxOffset}}
        retention_by_month ==
            {LET g == {x \in matched : x.cohort_month = k[1] /\ x.months_since_signup = k[2]}
                 retained == Cardinality({x.user_id : x \in g})
             IN  [cohort_month |-> k[1],
                  months_since_signup |-> k[2],
                  retained_users |-> retained,
                  cohort_size |-> cohort_size(k[1]),
                  retention_rate_pct |-> RetentionPct(retained, cohort_size(k[1]))] :
                k \in {<<x.cohort_month, x.months_since_signup>> : x \in matched}}
    IN  {r \in retention_by_month :
            DateGE(r.cohort_month, MinusMonths(current_date, cohort_months))}

cohort_retention_analysis_top(subs, cohort_months, current_date) ==
    LET cohorts ==
            {[user_id |-> sb.user_id, cohort_month |-> DateTrunc(sb.start_date)] :
                sb \in {x \in subs :
                          DateGE(x.start_date, MinusMonths(current_date, cohort_months))}}
        sub_months ==
            {[user_id |-> p[1].user_id,
              cohort_month |-> p[2].cohort_month,
              months_since_signup |->
                  DateDiffMonth(p[2].cohort_month, DateTrunc(p[1].start_date))] :
                p \in {q \in subs \X cohorts :
                          /\ q[1].user_id = q[2].user_id
                          /\ q[1].status \in {"Active", "Cancelled"}}}
        kept == {x \in sub_months : x.months_since_signup \in 0..MaxOffset}
        users_at(mth, k) ==
            Cardinality({x.user_id : x \in {y \in kept : y.cohort_month = mth
                                                        /\ y.months_since_signup = k}})
        \* FIRST_VALUE(...) OVER (PARTITION BY cohort_month ORDER BY months_since_signup)
        first_offset(mth) == Min({x.months_since_signup : x \in {y \in kept : y.cohort_month = mth}})
    IN  {[cohort_month |-> k[1],
          months_since_signup |-> k[2],
          retained_users |-> users_at(k[1], k[2]),
          retention_rate_pct |->
              Frac(100 * users_at(k[1], k[2]), users_at(k[1], first_offset(k[1])))] :
            k \in {<<x.cohort_month, x.months_since_signup>> : x \in kept}}

CohortMonthsArgs == {12, 3}

cohort_retention_analysis ==
    \E n \in CohortMonthsArgs :
        /\ IF copy = "src"
           THEN Query("cohort_retention_analysis", n,
                      {"users", "subscriptions", "transactions"},
                      cohort_retention_analysis_src(conn.users, conn.subscriptions,
                                                    conn.transactions, n, today))
           ELSE Query("cohort_retention_analysis", n, {"subscriptions"},
                      cohort_retention_analysis_top(conn.subscriptions, n, today))
        /\ UNCHANGED <<app, copy, today, files, conn, tables_loaded>>

(***************************************************************************)
(* detect_gateway_friction                                                 *)
(***************************************************************************)
RECURSIVE GCD(_, _)
GCD(a, b) == IF b = 0 THEN a ELSE GCD(b, a % b)

RECURSIVE LCMOver(_)
\* Least common multiple of a set of positive integers
LCMOver(S) ==
    IF S = {} THEN 1
    ELSE LET x == CHOOSE y \in S : TRUE
             l == LCMOver(S \ {x})
         IN  (x \div GCD(x, l)) * l

\* GROUP BY gateway, country: the keys and the rows of one key
PairKeys(txs) == {<<t.gateway, t.country>> : t \in txs}

PairRows(txs, k) == {t \in txs : t.gateway = k[1] /\ t.country = k[2]}

Successes(txs) == Cardinality({t \in txs : t.status = "Success"})

\* COALESCE(country, 'Unknown')
CountryLabel(c) == IF c = Null THEN "Unknown" ELSE c

\* The orders in which the engine may hand out the values of S: the order of a
\* result without ORDER BY, and of rows that compare equal under an ORDER BY,
\* is not fixed by the query
Orders(S) ==
    {s \in [1..Cardinality(S) -> S] :
        \A i \in 1..Cardinality(S) : \A j \in 1..Cardinality(S) : s[i] = s[j] => i = j}

PositionIn(s, x) == CHOOSE i \in 1..Len(s) : s[i] = x

\* The values of error_code the two queries put in a list, in an engine order:
\* those of the failed payments (NULL included) and the non-NULL ones of the
\* others
ErrorOrders(txs) ==
    Orders({t.error_code : t \in {x \in txs : x.status # "Success" \/ x.error_code # Null}})

RECURSIVE OrderByCountDesc(_, _, _)
\* GROUP BY error_code ORDER BY cnt DESC: the groups by descending count, groups
\* of equal count in the order the engine hands them out
OrderByCountDesc(groups, cnt, order) ==
    IF groups = {} THEN <<>>
    ELSE LET g == CHOOSE x \in groups :
                      \A y \in groups \ {x} :
                          \/ cnt[x] > cnt[y]
                          \/ cnt[x] = cnt[y] /\ PositionIn(order, x) < PositionIn(order, y)
         IN  <<g>> \o OrderByCountDesc(groups \ {g}, cnt, order)

\* LIMIT n
Limit(s, n) == SubSeq(s, 1, IF Len(s) < n THEN Len(s) ELSE n)

\* STRING_AGG(error_code, ', '): the non-NULL values in the order they arrive,
\* as the list of the codes the string joins; NULL (no value) is the empty list
StringAgg(s) ==
    LET NotNull(c) == c # Null
    IN  SelectSeq(s, NotNull)

CommonErrorsLimit == 3

\* src: the correlated subquery reads every transaction t2 of the pair, inside
\* the window or not
CommonErrors_src(txs, k, order) ==
    LET failed == {t2 \in txs : /\ t2.gateway = k[1]
                                /\ CountryLabel(t2.country) = CountryLabel(k[2])
                                /\ t2.status # "Success"}
        groups == {t2.error_code : t2 \in failed}
        cnt == [c \in groups |-> Cardinality({t2 \in failed : t2.error_code = c})]
    IN  StringAgg(Limit(OrderByCountDesc(groups, cnt, order), CommonErrorsLimit))

\* top: STRING_AGG(DISTINCT error_code, ', ') over the rows of the pair
CommonErrors_top(g, order) ==
    LET InPair(c) == c \in {t.error_code : t \in g}
    IN  StringAgg(SelectSeq(order, InPair))

FrictionWindowDays == 90

FrictionMinAttempts_src == 50

FrictionMinAttempts_top == 30

\* src: the CASE compares the rounded pair rate a/100 with the unrounded
\* baseline 100*S/N less the margin
FrictionFlag_src(a, S, N) ==
    IF a * N < 10000 * S - 1000 * N THEN "High Friction"
    ELSE IF a * N < 10000 * S - 500 * N THEN "Medium Friction"
    ELSE "Low Friction"

detect_gateway_friction_src(txs, order) ==
    IF txs = {} THEN {}
    ELSE
    LET anchor == MaxDate({t.tx_date : t \in txs})
        window == {t \in txs : WithinDays(t.tx_date, anchor, FrictionWindowDays)}
        \* AVG(CASE WHEN status = 'Success' THEN 1.0 ELSE 0.0 END) = S / N
        S == Successes(window)
        N == Cardinality(window)
        keys == {k \in PairKeys(window) :
                    Cardinality(PairRows(window, k)) >= FrictionMinAttempts_src}
    IN  {LET g == PairRows(window, k)
             attempts == Cardinality(g)
             successes == Successes(g)
             acceptance_rate == RoundDiv(10000 * successes, attempts)
         IN  [gateway |-> k[1],
              country |-> CountryLabel(k[2]),
              attempts |-> attempts,
              successes |-> successes,
              acceptance_rate_pct |-> Frac(acceptance_rate, 100),
              baseline_rate_pct |-> Frac(RoundDiv(10000 * S, N), 100),
              variance_from_baseline |->
                  Frac(RoundDiv(acceptance_rate * N - 10000 * S, N), 100),
              common_errors |-> CommonErrors_src(txs, k, order),
              friction_flag |-> FrictionFlag_src(acceptance_rate, S, N)] :
            k \in keys}

\* top: the CASE compares the same expression the row reports as its variance
FrictionFlag_top(variance) ==
    IF variance.num < -10 * variance.den THEN "High Friction"
    ELSE IF variance.num < -5 * variance.den THEN "Medium Friction"
    ELSE "Low Friction"

\* (LIMIT 100 of the top copy is beyond the number of pairs modelled)
detect_gateway_friction_top(txs, order) ==
    LET keys == {k \in PairKeys(txs) :
                    Cardinality(PairRows(txs, k)) >= FrictionMinAttempts_top}
        L == LCMOver({Cardinality(PairRows(txs, k)) : k \in keys})
        \* the pair's rate 100 * successes / attempts as a multiple of 1/L
        rate(k) == 100 * Successes(PairRows(txs, k)) * (L \div Cardinality(PairRows(txs, k)))
        total == SumOver(keys, [k \in keys |-> rate(k)])
        n == Cardinality(keys)
    IN  {LET variance == Frac(rate(k) * n - total, n * L)
         IN  [gateway |-> k[1],
              country |-> k[2],
              attempts |-> Cardinality(PairRows(txs, k)),
              acceptance_rate_pct |-> Frac(rate(k), L),
              common_errors |-> CommonErrors_top(PairRows(txs, k), order),
              baseline_rate_pct |-> Frac(total, n * L),
              variance_from_baseline |-> variance,
              friction_flag |-> FrictionFlag_top(variance)] :
            k \in keys}

detect_gateway_friction ==
    /\ IF copy = "top" /\ "transactions" \in conn.created /\ ~conn.error_code
       THEN \* STRING_AGG(DISTINCT error_code, ', ') on a table without the column
            /\ called' = [op |-> "detect_gateway_friction", arg |-> Null]
            /\ raised' = Error("BinderException")
            /\ result' = NoResult
            /\ first_call' = Recorded(first_call, called', raised', result')
       ELSE \E order \in ErrorOrders(conn.transactions) :
                Query("detect_gateway_friction", Null, {"transactions"},
                      IF copy = "src"
                      THEN detect_gateway_friction_src(conn.transactions, order)
                      ELSE detect_gateway_friction_top(conn.transactions, order))
    /\ UNCHANGED <<app, copy, today, files, conn, tables_loaded>>

(***************************************************************************)
(* payment_acceptance_rate_by_gateway                                      *)
(***************************************************************************)
AcceptanceWindowDays == 90

\* min_transactions: int = 100 (src), = 50 (top)
DefaultMinTransactions(c) == IF c = "src" THEN 100 ELSE 50

CountOf(txs, st) == Cardinality({t \in txs : t.status = st})

\* ROUND(n::DECIMAL / d * 100, 2)
RoundedPct(n, d) == Frac(RoundDiv(10000 * n, d), 100)

payment_acceptance_rate_by_gateway_src(txs, min_transactions) ==
    IF txs = {} THEN {}
    ELSE
    LET anchor == MaxDate({t.tx_date : t \in txs})
        window == {t \in txs : WithinDays(t.tx_date, anchor, AcceptanceWindowDays)}
        keys == {k \in PairKeys(window) :
                    Cardinality(PairRows(window, k)) >= min_transactions}
    IN  {LET g == PairRows(window, k)
             total_attempts == Cardinality(g)
         IN  [gateway |-> k[1],
              country |-> CountryLabel(k[2]),
              total_attempts |-> total_attempts,
              successful_txs |-> CountOf(g, "Success"),
              soft_declines |-> CountOf(g, "Soft Decline"),
              hard_declines |-> CountOf(g, "Hard Decline"),
              acceptance_rate_pct |-> RoundedPct(CountOf(g, "Success"), total_attempts),
              soft_decline_rate_pct |-> RoundedPct(CountOf(g, "Soft Decline"), total_attempts),
              hard_decline_rate_pct |-> RoundedPct(CountOf(g, "Hard Decline"), total_attempts)] :
            k \in keys}

\* (LIMIT 50 of the top copy is beyond the number of pairs modelled)
payment_acceptance_rate_by_gateway_top(txs, min_transactions) ==
    LET keys == {k \in PairKeys(txs) : Cardinality(PairRows(txs, k)) >= min_transactions}
    IN  {LET g == PairRows(txs, k)
             total_attempts == Cardinality(g)
         IN  [gateway |-> k[1],
              country |-> k[2],
              total_attempts |-> total_attempts,
              acceptance_rate_pct |-> Frac(100 * CountOf(g, "Success"), total_attempts),
              soft_decline_rate_pct |-> Frac(100 * CountOf(g, "Soft Decline"), total_attempts),
              hard_decline_rate_pct |-> Frac(100 * CountOf(g, "Hard Decline"), total_attempts)] :
            k \in keys}

\* The argument list: empty (the default), the value scripts/run_analysis.py
\* passes, and a small one
MinTransactionsArgs == {<<>>, <<50>>, <<2>>}

payment_acceptance_rate_by_gateway ==
    \E a \in MinTransactionsArgs :
        LET n == IF a = <<>> THEN DefaultMinTransactions(copy) ELSE a[1]
        IN  /\ Query("payment_acceptance_rate_by_gateway", a, {"transactions"},
                     IF copy = "src"
                     THEN payment_acceptance_rate_by_gateway_src(conn.transactions, n)
                     ELSE payment_acceptance_rate_by_gateway_top(conn.transactions, n))
            /\ UNCHANGED <<app, copy, today, files, conn, tables_loaded>>

(***************************************************************************)
(* executive_metrics: the bundle is a record of numbers (money in cents)   *)
(***************************************************************************)
SuccessWindowDays == 30

\* float(x) if x is not None else 0  /  x or 0  /  float(x) if x else 0
OrZeroKeepsNull(x) == x

OrZero(x) == IF x.isnull THEN Num(0) ELSE x

\* SUM(f) over rows: NULL over no rows
NullableSum(S, f) == IF S = {} THEN NullNum ELSE Num(SumOver(S, f))

\* n / NULLIF(d, 0), and DuckDB's n / 0 = NULL
NullableDiv(n, d) == IF d = 0 THEN NullNum ELSE Frac(n, d)

executive_metrics_src(subs, txs) ==
    LET active == {sb \in subs : sb.status = "Active"}
        success == {t \in txs : t.status = "Success"}
        anchor == MaxDate({t.tx_date : t \in txs})
        window == IF txs = {} THEN {}
                  ELSE {t \in txs : WithinDays(t.tx_date, anchor, SuccessWindowDays)}
        success_rate == IF window = {} THEN NullNum
                        ELSE RoundedPct(Successes(window), Cardinality(window))
        \* DATE_TRUNC('month', MAX(tx_date)) - INTERVAL '1 month'
        target_month == MinusMonths(DateTrunc(anchor), 1)
        month_start_subs ==
            IF txs = {} THEN {}
            ELSE {sb \in subs : /\ DateLE(sb.start_date, target_month)
                                /\ sb.status \in {"Active", "Churned", "Past Due"}}
        month_churned == {sb \in month_start_subs : sb.status = "Churned"}
        churn_rate == IF month_start_subs = {} THEN NullNum
                      ELSE RoundedPct(Cardinality(month_churned),
                                      Cardinality(month_start_subs))
        avg_tx_value == IF success = {} THEN NullNum
                        ELSE Num(RoundDiv(SumOver(success, [t \in success |-> t.amount]),
                                          Cardinality(success)))
    IN  [mrr |-> OrZero(NullableSum(active, [sb \in active |-> sb.mrr_amount])),
         active_subscriptions |-> Num(Cardinality({sb.sub_id : sb \in active})),
         payment_success_rate |-> OrZero(success_rate),
         total_revenue |-> OrZero(NullableSum(success, [t \in success |-> t.amount])),
         churn_rate |-> OrZero(churn_rate),
         avg_transaction_value |-> OrZero(avg_tx_value)]

executive_metrics_top(subs, txs, current_date) ==
    LET active == {sb \in subs : sb.status = "Active"}
        recent_txs == {t \in txs : WithinDays(t.tx_date, current_date, SuccessWindowDays)}
        recent_success == {t \in recent_txs : t.status = "Success"}
        avg_tx == IF recent_success = {} THEN NullNum
                  ELSE Frac(SumOver(recent_success, [t \in recent_success |-> t.amount]),
                            Cardinality(recent_success))
        success_rate == NullableDiv(100 * Cardinality(recent_success),
                                    Cardinality(recent_txs))
        churn_rate == NullableDiv(100 * Cardinality({sb \in subs : sb.status = "Cancelled"}),
                                  Cardinality(subs))
    IN  [active_subscriptions |-> Num(Cardinality(active)),
         mrr |-> OrZero(NullableSum(active, [sb \in active |-> sb.mrr_amount])),
         avg_transaction_value |-> OrZero(avg_tx),
         payment_success_rate |-> OrZero(success_rate),
         churn_rate |-> OrZero(OrZero(churn_rate))]

executive_metrics ==
    /\ Query("executive_metrics", Null, {"subscriptions", "transactions"},
             {IF copy = "src"
              THEN executive_metrics_src(conn.subscriptions, conn.transactions)
              ELSE executive_metrics_top(conn.subscriptions, conn.transactions, today)})
    /\ UNCHANGED <<app, copy, today, files, conn, tables_loaded>>

(***************************************************************************)
(* app.load_analytics: invocations that share the data directory ./data.   *)
(* A CSV file is absent, partial (opened by to_csv, not yet closed) or     *)
(* complete; os.path.exists is true of a partial file.                     *)
(***************************************************************************)
Invocations == {1, 2}

\* data_files, in the order generate_all_data writes them
DataFiles == <<"users", "subscriptions", "transactions">>

DataFileNames == {DataFiles[n] : n \in 1..Len(DataFiles)}

\* An empty data directory and the invocations before their first statement
AppStart ==
    [dir |-> [f \in DataFileNames |-> "absent"],
     writers |-> [f \in DataFileNames |-> {}],
     lock_file |-> FALSE,
     pc |-> [i \in Invocations |-> "exists_lock"],
     next_file |-> [i \in Invocations |-> 1],
     generation |-> [i \in Invocations |-> "none"],
     loaded |-> [i \in Invocations |-> "none"]]

analytics == <<copy, today, files, conn, tables_loaded, called, raised, result, first_call>>

\* if not os.path.exists(lock_file):
exists_lock_file ==
    \E i \in Invocations :
        /\ app.pc[i] = "exists_lock"
        /\ app' = [app EXCEPT !.pc[i] = IF app.lock_file THEN "load" ELSE "exists_files"]
        /\ UNCHANGED analytics

\* if not all(os.path.exists(f) for f in data_files):
exists_data_files ==
    \E i \in Invocations :
        /\ app.pc[i] = "exists_files"
        /\ app' = [app EXCEPT !.pc[i] =
                      IF \A f \in DataFileNames : app.dir[f] # "absent"
                      THEN "load" ELSE "generate"]
        /\ UNCHANGED analytics

\* os.makedirs(...); PaymentDataGenerator(num_users=15000); generate_all_data
\* builds its frames
generate_all_data ==
    \E i \in Invocations :
        /\ app.pc[i] = "generate"
        /\ app' = [app EXCEPT !.pc[i] = "open", !.next_file[i] = 1,
                              !.generation[i] = "running"]
        /\ UNCHANGED analytics

\* df.to_csv(...) opens the next file for writing
to_csv_open ==
    \E i \in Invocations :
        LET f == DataFiles[app.next_file[i]]
        IN  /\ app.pc[i] = "open"
            /\ app' = [app EXCEPT !.pc[i] = "write", !.dir[f] = "partial",
                                  !.writers[f] = @ \cup {i}]
            /\ UNCHANGED analytics

\* df.to_csv(...) writes the rows and closes the file; a file removed in the
\* meantime stays removed, one that another invocation still writes stays partial
to_csv_close ==
    \E i \in Invocations :
        LET f == DataFiles[app.next_file[i]]
            last == app.next_file[i] = Len(DataFiles)
        IN  /\ app.pc[i] = "write"
            /\ app' = [app EXCEPT
                          !.pc[i] = IF last THEN "create_lock" ELSE "open",
                          !.next_file[i] = IF last THEN @ ELSE @ + 1,
                          !.generation[i] = IF last THEN "finished" ELSE @,
                          !.writers[f] = @ \ {i},
                          !.dir[f] = IF @ = "absent" THEN "absent"
                                     ELSE IF app.writers[f] \ {i} = {} THEN "complete"
                                     ELSE "partial"]
            /\ UNCHANGED analytics

\* with open(lock_file, 'w') as f: f.write(...)
create_lock_file ==
    \E i \in Invocations :
        /\ app.pc[i] = "create_lock"
        /\ app' = [app EXCEPT !.pc[i] = "load", !.lock_file = TRUE]
        /\ UNCHANGED analytics

\* except Exception as e: any statement of the try block may raise (disk,
\* memory, import); the open file of the invocation is closed as it is
generation_raises ==
    \E i \in Invocations :
        /\ app.pc[i] \in {"generate", "open", "write", "create_lock"}
        /\ app' = [app EXCEPT !.pc[i] = "cleanup", !.next_file[i] = 1,
                              !.generation[i] = IF @ = "finished" THEN @ ELSE "failed",
                              !.writers = [f \in DataFileNames |-> app.writers[f] \ {i}]]
        /\ UNCHANGED analytics

\* for f in data_files: if os.path.exists(f): os.remove(f)  -- then raise
remove_partial_files ==
    \E i \in Invocations :
        LET f == DataFiles[app.next_file[i]]
            last == app.next_file[i] = Len(DataFiles)
        IN  /\ app.pc[i] = "cleanup"
            /\ app' = [app EXCEPT !.pc[i] = IF last THEN "raised" ELSE "cleanup",
                                  !.next_file[i] = IF last THEN @ ELSE @ + 1,
                                  !.dir[f] = "absent"]
            /\ UNCHANGED analytics

\* What PaymentAnalytics(data_dir).load_data() of invocation i finds
FoundBy(i) ==
    IF \E f \in DataFileNames : app.dir[f] = "absent" THEN "missing"
    ELSE IF \E f \in DataFileNames : app.writers[f] \ {i} # {} THEN "being written"
    ELSE IF \E f \in DataFileNames : app.dir[f] = "partial" THEN "partial"
    ELSE "complete"

\* analytics = PaymentAnalytics(data_dir=data_dir); analytics.load_data()
load_analytics_load_data ==
    \E i \in Invocations :
        /\ app.pc[i] = "load"
        /\ app' = [app EXCEPT !.loaded[i] = FoundBy(i),
                              !.pc[i] = IF FoundBy(i) = "missing" THEN "raised"
                                        ELSE "returned"]
        /\ UNCHANGED analytics

(***************************************************************************)
(* Snapshots the specifications start from                                 *)
(***************************************************************************)
BaseUsers == {User(1, Date(2025, 1, 15))}

BaseSubs(c) == {Sub(1, 1, 999, "Active", Date(2025, 1, 20))}

BaseTxs == {Tx(1, 1, "Stripe", "Success", Null, Date(2025, 2, 1), 999, "DE")}

Fresh(c, d, f) ==
    /\ copy = c
    /\ today = d
    /\ files = f
    /\ conn = NewConn
    /\ tables_loaded = FALSE
    /\ called = NoCall
    /\ raised = NoError
    /\ result = NoResult
    /\ first_call = NoFirstCall
    /\ app = AppStart

\* A CSV file is absent, holds only its header line, or holds rows
FileStates(rows) == {MissingFile, File({}), File(rows)}

LoaderFiles(c) ==
    {[users |-> u, subscriptions |-> s, transactions |-> t, error_code_column |-> e] :
        u \in FileStates(BaseUsers), s \in FileStates(BaseSubs(c)),
        t \in FileStates(BaseTxs), e \in BOOLEAN}

InitLoader ==
    \E c \in Copies : \E f \in LoaderFiles(c) : Fresh(c, Date(2025, 6, 15), f)

NextLoader == load_data

SpecLoader == InitLoader /\ [][NextLoader]_vars

(***************************************************************************)
(* Claims about load_data                                                  *)
(***************************************************************************)
\* C8: load_data on a transactions snapshot without the error_code column ends
\* in a raised error and leaves the store not loaded.
C8_MissingErrorCodeRejected ==
    (called.op = "load_data" /\ ~files.error_code_column)
        => (raised # NoError /\ ~tables_loaded)

\* C9: once a load_data has succeeded, a further load_data returns normally and
\* leaves the tables, the indexes and the loaded flag unchanged.
C9_LoadIdempotent ==
    [][(tables_loaded /\ called'.op = "load_data")
        => (raised' = NoError /\ conn' = conn /\ tables_loaded')]_vars

\* C10: if any of the three tables holds zero rows after ingestion, load_data
\* fails with a validation error and the store is never marked loaded.
C10_EmptyTableRejected ==
    LET empty == \E t \in {"users", "subscriptions", "transactions"} :
                    t \in conn.created /\ conn[t] = {}
    IN  /\ empty => ~tables_loaded
        /\ (empty /\ called.op = "load_data"
                  /\ conn.created = {"users", "subscriptions", "transactions"})
              => raised # NoError

(***************************************************************************)
(* Payment funnel: transactions of a few gateways, countries and statuses  *)
(***************************************************************************)
MaxTx == 3

Gateways == {"Stripe", "Bitcoin"}

TxStatuses == {"Success", "Soft Decline", "Hard Decline"}

\* The kinds of transaction row the funnel tells apart, in a fixed order
FunnelKinds ==
    <<  <<"Stripe", "DE", "Success">>,   <<"Stripe", "DE", "Soft Decline">>,
        <<"Stripe", "DE", "Hard Decline">>, <<"Stripe", Null, "Success">>,
        <<"Stripe", Null, "Hard Decline">>, <<"Bitcoin", "DE", "Success">>,
        <<"Bitcoin", "DE", "Soft Decline">>, <<"Bitcoin", Null, "Success">>,
        <<"Bitcoin", Null, "Soft Decline">>, <<"Bitcoin", Null, "Hard Decline">> >>

FunnelTx(i, k) ==
    Tx(i, 1, FunnelKinds[k][1], FunnelKinds[k][3],
       IF FunnelKinds[k][3] = "Success" THEN Null ELSE "card_declined",
       Date(2025, 2, 1), 999, FunnelKinds[k][2])

\* Tables of n <= MaxTx rows; tx_id i carries kind ks[i], kinds in ascending
\* order (the queries do not read tx_id, so this covers every multiset of kinds)
FunnelTxs ==
    UNION {{ {FunnelTx(i, ks[i]) : i \in 1..n} :
                ks \in {f \in [1..n -> 1..Len(FunnelKinds)] :
                            \A i \in 1..n : \A j \in 1..n : i <= j => f[i] <= f[j]} } :
            n \in 0..MaxTx}

InitSankey ==
    \E c \in Copies : \E t \in FunnelTxs :
        Fresh(c, Date(2025, 6, 15), Snapshot(BaseUsers, BaseSubs(c), t))

NextSankey == load_data \/ get_sankey_data

SpecSankey == InitSankey /\ [][NextSankey]_vars

\* The transactions a country filter selects: all of them for no filter,
\* otherwise those whose country equals the code
FilteredScope(txs, f) == {t \in txs : f = Null \/ t.country = f}

EdgeWeight(edges) == SumOver(edges, [e \in edges |-> e.value])

\* C2: for no filter or a country code, the weights leaving 'Attempt' sum to the
\* number of transactions in the filtered scope and the weights into 'Settled'
\* sum to the number of Success transactions in that scope.
C2_SankeyConservation ==
    (result.op = "get_sankey_data" /\ called.arg # "")
        => LET scope == FilteredScope(conn.transactions, called.arg)
           IN  /\ EdgeWeight({e \in result.rows : e.source = "Attempt"})
                    = Cardinality(scope)
               /\ EdgeWeight({e \in result.rows : e.target = "Settled"})
                    = Cardinality({t \in scope : t.status = "Success"})

C2_Witness ==
    /\ result.op = "get_sankey_data"
    /\ called.arg = "DE"
    /\ LET scope == FilteredScope(conn.transactions, "DE")
       IN  /\ Cardinality(scope) >= 2
           /\ \E t \in scope : t.status = "Success"
           /\ \E t \in scope : t.status # "Success"
           /\ \E t \in conn.transactions \ scope : t.status = "Success"
           /\ Cardinality({t.gateway : t \in scope}) = 2

(***************************************************************************)
(* Churn: a few users and subscriptions of every status                    *)
(***************************************************************************)
MaxSubs == 3

SubStatuses(c) == {"Active", ChurnedLabel(c), "Past Due"}

\* users.csv: user 1 alone, or users 1 and 2 signed up in the same or in
\* different months (user_id is unique)
ChurnUsers ==
    { {User(1, Date(2025, 1, 15))},
      {User(1, Date(2025, 1, 15)), User(2, Date(2025, 1, 30))},
      {User(1, Date(2025, 1, 15)), User(2, Date(2025, 2, 3))} }

\* The kinds of subscription row, numbered 1..12: owner (user 1 or 2), status,
\* start date (the second one more than twelve months before the current date)
ChurnKindCount == 2 * 3 * 2

ChurnKind(c, k) ==
    [user_id |-> ((k - 1) % 2) + 1,
     status |-> <<"Active", ChurnedLabel(c), "Past Due">>[(((k - 1) \div 2) % 3) + 1],
     start_date |-> <<Date(2025, 1, 20), Date(2024, 5, 10)>>[((k - 1) \div 6) + 1]]

\* Tables of n <= MaxSubs rows with sub_id 1..n, one table per multiset of kinds
ChurnSubs(c) ==
    UNION {{ {Sub(i, ChurnKind(c, ks[i]).user_id, 999, ChurnKind(c, ks[i]).status,
                  ChurnKind(c, ks[i]).start_date) : i \in 1..n} :
                ks \in {f \in [1..n -> 1..ChurnKindCount] :
                            \A i \in 1..n : \A j \in 1..n : i <= j => f[i] <= f[j]} } :
            n \in 0..MaxSubs}

MaxCohort == 32

\* One cohort of t <= MaxCohort subscriptions of user 1, a of them Active and
\* the others churned
CohortSubs(c) ==
    { {Sub(i, 1, 999, IF i <= a THEN "Active" ELSE ChurnedLabel(c), Date(2025, 1, 20)) :
            i \in 1..t} :
        a \in 0..MaxCohort, t \in 1..MaxCohort }

InitChurn ==
    \E c \in Copies : \E u \in ChurnUsers : \E sb \in ChurnSubs(c) \cup CohortSubs(c) :
        Fresh(c, Date(2025, 6, 15), Snapshot(u, sb, BaseTxs))

NextChurn == load_data \/ calculate_monthly_churn_rate

SpecChurn == InitChurn /\ [][NextChurn]_vars

\* C4: in every cohort row the three status counters together never exceed
\* total_subs (the top copy reports the single counter `churned`).
C4_StatusCountsWithinTotal ==
    result.op = "calculate_monthly_churn_rate"
        => \A r \in result.rows :
              IF copy = "src"
              THEN r.churned_subs + r.active_subs + r.past_due_subs <= r.total_subs
              ELSE r.churned <= r.total_subs

C4_Witness ==
    /\ result.op = "calculate_monthly_churn_rate"
    /\ copy = "src"
    /\ \E r \in result.rows :
          /\ r.churned_subs = 1 /\ r.active_subs = 1 /\ r.past_due_subs = 1
          /\ r.total_subs = 3

\* The subscriptions a cohort row aggregates: by the owner's signup month in
\* the src copy, by the subscription's own start month in the top copy
RowSubs(r) ==
    IF copy = "src"
    THEN {sb \in conn.subscriptions :
            \E u \in conn.users : u.user_id = sb.user_id
                                  /\ DateTrunc(u.signup_date) = r.cohort_month}
    ELSE {sb \in conn.subscriptions : DateTrunc(sb.start_date) = r.cohort_month}

\* a/b + c/d differs from 100 by at most 0.01
SumsToHundred(x, y) ==
    /\ ~x.isnull /\ ~y.isnull
    /\ 100 * Abs(x.num * y.den + y.num * x.den - 100 * x.den * y.den) <= x.den * y.den

\* C5: in a cohort row whose subscriptions are all Active or Churned/Cancelled,
\* retention_rate_pct + churn_rate_pct is 100 up to the rounding of the two
\* reported percentages (0.01).
C5_RetentionPlusChurn ==
    result.op = "calculate_monthly_churn_rate"
        => \A r \in result.rows :
              (\A sb \in RowSubs(r) : sb.status \in {"Active", ChurnedLabel(copy)})
                  => SumsToHundred(r.retention_rate_pct, r.churn_rate_pct)

C5_Witness ==
    /\ result.op = "calculate_monthly_churn_rate"
    /\ copy = "src"
    /\ \E r \in result.rows :
          /\ \A sb \in RowSubs(r) : sb.status \in {"Active", "Churned"}
          /\ r.total_subs = 32 /\ r.active_subs = 1 /\ r.churned_subs = 31
          /\ r.retention_rate_pct = Frac(313, 100)
          /\ r.churn_rate_pct = Frac(9688, 100)

(***************************************************************************)
(* Revenue: transactions and subscriptions over a few months, with or      *)
(* without twelve later months of payments                                 *)
(***************************************************************************)
MaxRevTx == 2

MaxRevSubs == 2

\* Transaction kinds: month x (Success of 0.00, Success of 9.99, Hard Decline)
RevTxKindCount == 3 * 2

RevTx(i, k) ==
    LET st == <<"Success", "Success", "Hard Decline">>[((k - 1) % 3) + 1]
    IN  Tx(i, 1, "Stripe", st, IF st = "Success" THEN Null ELSE "card_declined",
           <<Date(2024, 1, 10), Date(2024, 2, 10)>>[((k - 1) \div 3) + 1],
           <<0, 999, 999>>[((k - 1) % 3) + 1], "DE")

\* Subscription kinds: month x (Active 0.00, Active 9.99, Past Due 9.99, churned 9.99)
RevSubKindCount == 4 * 2

RevSub(c, i, k) ==
    Sub(i, 1, <<0, 999, 999, 999>>[((k - 1) % 4) + 1],
        <<"Active", "Active", "Past Due", ChurnedLabel(c)>>[((k - 1) % 4) + 1],
        <<Date(2024, 1, 20), Date(2024, 3, 5)>>[((k - 1) \div 4) + 1])

RevTxs ==
    UNION {{ {RevTx(i, ks[i]) : i \in 1..n} :
                ks \in {f \in [1..n -> 1..RevTxKindCount] :
                            \A i \in 1..n : \A j \in 1..n : i <= j => f[i] <= f[j]} } :
            n \in 0..MaxRevTx}

RevSubs(c) ==
    UNION {{ {RevSub(c, i, ks[i]) : i \in 1..n} :
                ks \in {f \in [1..n -> 1..RevSubKindCount] :
                            \A i \in 1..n : \A j \in 1..n : i <= j => f[i] <= f[j]} } :
            n \in 0..MaxRevSubs}

\* One Success payment in each of the twelve months 2024-04 .. 2025-03
LaterPayments ==
    {Tx(100 + i, 1, "Stripe", "Success", Null,
        MonthOfIndex(MonthIndex(Date(2024, 4, 1)) + i - 1), 500, "DE") : i \in 1..12}

InitRevenue ==
    \E c \in Copies : \E sb \in RevSubs(c) : \E t \in RevTxs : \E later \in BOOLEAN :
        Fresh(c, Date(2025, 6, 15),
              Snapshot(BaseUsers, sb, t \cup (IF later THEN LaterPayments ELSE {})))

NextRevenue == load_data \/ revenue_reconciliation

SpecRevenue == InitRevenue /\ [][NextRevenue]_vars

\* Months of the loaded snapshot
SuccessIn(mth) ==
    {t \in conn.transactions : t.status = "Success" /\ DateTrunc(t.tx_date) = mth}

QualifyingIn(mth) ==
    {sb \in conn.subscriptions :
        sb.status \in {"Active", "Past Due"} /\ DateTrunc(sb.start_date) = mth}

DataMonths ==
    {DateTrunc(t.tx_date) : t \in conn.transactions}
        \cup {DateTrunc(sb.start_date) : sb \in conn.subscriptions}

IsZero(x) == ~x.isnull /\ x.num = 0

\* C6 as stated: the call never raises, a month of the data with no Success
\* transaction and no qualifying subscription is reported with cash_collected = 0,
\* booked_revenue = 0, variance = 0 and variance_pct null, and every reported
\* month with booked_revenue = 0 has variance_pct null.
C6_EmptyMonthReportedAsZero ==
    (tables_loaded /\ result.op = "revenue_reconciliation")
        => /\ raised = NoError
           /\ \A mth \in DataMonths :
                 (SuccessIn(mth) = {} /\ QualifyingIn(mth) = {})
                    => \E r \in result.rows :
                          /\ r.month = mth
                          /\ IsZero(r.cash_collected) /\ IsZero(r.booked_revenue)
                          /\ IsZero(r.variance) /\ r.variance_pct.isnull
           /\ \A r \in result.rows : IsZero(r.booked_revenue) => r.variance_pct.isnull

\* C6 amended: the call never raises on a zero denominator; a month with no
\* Success transaction and no qualifying subscription is not reported at all;
\* every reported month with booked_revenue = 0 has variance_pct null, and one
\* with cash_collected = 0 as well has variance = 0.
C6_ZeroDenominatorIsNull ==
    (called.op = "revenue_reconciliation"
        /\ {"subscriptions", "transactions"} \subseteq conn.created)
        => /\ raised = NoError
           /\ result.op = "revenue_reconciliation"
           /\ \A r \in result.rows :
                 /\ SuccessIn(r.month) # {} \/ QualifyingIn(r.month) # {}
                 /\ IsZero(r.booked_revenue) => r.variance_pct.isnull
                 /\ (IsZero(r.booked_revenue) /\ IsZero(r.cash_collected))
                        => IsZero(r.variance)

C6_Witness ==
    /\ result.op = "revenue_reconciliation"
    /\ raised = NoError
    /\ \E r \in result.rows :
          /\ IsZero(r.cash_collected) /\ IsZero(r.booked_revenue)
          /\ IsZero(r.variance) /\ r.variance_pct.isnull
    /\ \E mth \in DataMonths :
          /\ SuccessIn(mth) = {} /\ QualifyingIn(mth) = {}
          /\ \A r \in result.rows : r.month # mth

\* The months that have a Success transaction or a qualifying subscription start
ActiveMonths == {mth \in DataMonths : SuccessIn(mth) # {} \/ QualifyingIn(mth) # {}}

\* C7: every month with a Success transaction or a qualifying subscription start
\* is reported (among the 12 latest such months), with the missing side's amount
\* equal to 0, so that variance = cash_collected - booked_revenue is a number.
C7_OuterUnionZeroFilled ==
    (tables_loaded /\ result.op = "revenue_reconciliation")
        => /\ \A mth \in ActiveMonths :
                 Cardinality({x \in ActiveMonths : MonthIndex(x) > MonthIndex(mth)})
                        < RevenueLimit
                    => \E r \in result.rows : r.month = mth
           /\ \A r \in result.rows :
                 /\ ~r.cash_collected.isnull
                 /\ ~r.booked_revenue.isnull
                 /\ ~r.variance.isnull
                 /\ r.variance.num = r.cash_collected.num - r.booked_revenue.num

(***************************************************************************)
(* Retention: users of one or two signup months, their subscriptions and   *)
(* payments before, inside and after the thirteen reported offsets         *)
(***************************************************************************)
MaxRetSubs == 2

MaxRetTx == 2

\* Subscription kinds: owner x (Active, Past Due) x start month
RetSubKindCount == 2 * 2 * 2

RetSub(i, k) ==
    Sub(i, ((k - 1) % 2) + 1, 999,
        <<"Active", "Past Due">>[(((k - 1) \div 2) % 2) + 1],
        <<Date(2025, 1, 20), Date(2025, 3, 5)>>[((k - 1) \div 4) + 1])

\* Transaction kinds: subscription x (Success at four dates, one decline)
RetTxKindCount == 5 * 2

RetTx(i, k) ==
    LET j == ((k - 1) % 5) + 1
    IN  Tx(i, ((k - 1) \div 5) + 1, "Stripe",
           IF j = 5 THEN "Hard Decline" ELSE "Success",
           IF j = 5 THEN "card_declined" ELSE Null,
           <<Date(2025, 1, 25), Date(2025, 3, 10), Date(2024, 12, 5), Date(2026, 3, 1),
             Date(2025, 1, 25)>>[j],
           999, "DE")

RetSubs ==
    UNION {{ {RetSub(i, ks[i]) : i \in 1..n} :
                ks \in {f \in [1..n -> 1..RetSubKindCount] :
                            \A i \in 1..n : \A j \in 1..n : i <= j => f[i] <= f[j]} } :
            n \in 0..MaxRetSubs}

RetTxs ==
    UNION {{ {RetTx(i, ks[i]) : i \in 1..n} :
                ks \in {f \in [1..n -> 1..RetTxKindCount] :
                            \A i \in 1..n : \A j \in 1..n : i <= j => f[i] <= f[j]} } :
            n \in 0..MaxRetTx}

InitRetention ==
    \E c \in Copies : \E u \in ChurnUsers : \E sb \in RetSubs : \E t \in RetTxs :
        Fresh(c, Date(2025, 6, 15), Snapshot(u, sb, t))

NextRetention == load_data \/ cohort_retention_analysis

SpecRetention == InitRetention /\ [][NextRetention]_vars

\* The users of signup cohort mth with a Success transaction k months later
ActiveUsersAt(mth, k) ==
    {u \in conn.users :
        /\ DateTrunc(u.signup_date) = mth
        /\ \E sb \in conn.subscriptions : \E t \in conn.transactions :
              /\ sb.user_id = u.user_id /\ t.sub_id = sb.sub_id /\ t.status = "Success"
              /\ DateDiffMonth(mth, DateTrunc(t.tx_date)) = k}

InPercentRange(x) == ~x.isnull /\ 0 <= x.num /\ x.num <= 100 * x.den

\* C3: every cohort of the output has, at every offset 0..12, a row whose
\* retention_rate_pct is a number in [0,100]; where no user of the cohort has a
\* Success transaction at the offset the row reports retained_users = 0 and 0%.
C3_EveryOffsetReported ==
    (tables_loaded /\ result.op = "cohort_retention_analysis")
        => \A mth \in {r.cohort_month : r \in result.rows} :
              \A k \in 0..MaxOffset :
                 \E r \in result.rows :
                    /\ r.cohort_month = mth /\ r.months_since_signup = k
                    /\ InPercentRange(r.retention_rate_pct)
                    /\ ActiveUsersAt(mth, k) = {}
                          => (r.retained_users = 0 /\ r.retention_rate_pct.num = 0)

(***************************************************************************)
(* Friction: three (gateway, country) pairs of chosen sizes                *)
(***************************************************************************)
\* <<attempts, successes>> of a pair
PairShapes ==
    { <<0, 0>>, <<30, 16>>, <<40, 20>>, <<50, 50>>, <<60, 14>>, <<100, 77>>,
      <<100, 80>>, <<100, 85>>, <<100, 93>>, <<100, 100>>, <<130, 130>> }

\* shape[1] transactions of one pair with ids first+1 .., shape[2] of them Success
Block(first, shape, gw, ctry, dt) ==
    {Tx(first + i, 1, gw, IF i <= shape[2] THEN "Success" ELSE "Hard Decline",
        IF i <= shape[2] THEN Null ELSE "card_declined", dt, 999, ctry) :
        i \in 1..shape[1]}

FrictionTxs ==
    {Block(0, a, "Apple Pay", "DE", Date(2025, 5, 1))
        \cup Block(200, b, "Stripe", "US", Date(2025, 5, 1))
        \cup Block(400, c, "Bitcoin", Null, d) :
        a \in PairShapes, b \in PairShapes, c \in PairShapes,
        d \in {Date(2025, 5, 1), Date(2025, 1, 1)}}

InitFriction ==
    \E c \in Copies : \E t \in FrictionTxs :
        Fresh(c, Date(2025, 6, 15), Snapshot(BaseUsers, BaseSubs(c), t))

NextFriction == load_data \/ detect_gateway_friction

SpecFriction == InitFriction /\ [][NextFriction]_vars

\* The label the documented thresholds give a reported variance
FlagOfVariance(v) ==
    IF v.num < -10 * v.den THEN "High Friction"
    ELSE IF v.num < -5 * v.den THEN "Medium Friction"
    ELSE "Low Friction"

\* C1: every friction row carries the label its reported variance_from_baseline
\* determines (High below -10, Medium from -10 to below -5, Low otherwise); a
\* pair of 100 attempts and 77 Success against a 90% baseline reports 77.0,
\* -13.0 and High Friction.
C1_FlagFollowsVariance ==
    (tables_loaded /\ result.op = "detect_gateway_friction")
        => \A r \in result.rows :
              /\ r.friction_flag = FlagOfVariance(r.variance_from_baseline)
              /\ (r.attempts = 100
                    /\ r.acceptance_rate_pct.num * 100 = 77 * 100 * r.acceptance_rate_pct.den
                    /\ r.baseline_rate_pct.num = 90 * r.baseline_rate_pct.den)
                    => /\ r.variance_from_baseline.num = -13 * r.variance_from_baseline.den
                       /\ r.friction_flag = "High Friction"

(***************************************************************************)
(* Executive metrics: a few subscriptions and transactions around the      *)
(* trailing windows, empty tables included                                 *)
(***************************************************************************)
MaxExecTx == 2

MaxExecSubs == 2

\* Transaction kinds: (Success, Hard Decline) x three dates x (9.99, 0.00)
ExecTxKindCount == 2 * 3 * 2

ExecTx(i, k) ==
    LET st == <<"Success", "Hard Decline">>[((k - 1) % 2) + 1]
    IN  Tx(i, 1, "Stripe", st, IF st = "Success" THEN Null ELSE "card_declined",
           <<Date(2025, 5, 20), Date(2025, 3, 1), Date(2025, 6, 10)>>[(((k - 1) \div 2) % 3) + 1],
           <<999, 0>>[((k - 1) \div 6) + 1], "DE")

\* Subscription kinds: three statuses x a start before or after the churn boundary
ExecSubKindCount == 3 * 2

ExecSub(c, i, k) ==
    Sub(i, 1, 999, <<"Active", ChurnedLabel(c), "Past Due">>[((k - 1) % 3) + 1],
        <<Date(2025, 1, 20), Date(2025, 5, 25)>>[((k - 1) \div 3) + 1])

ExecTxs ==
    UNION {{ {ExecTx(i, ks[i]) : i \in 1..n} :
                ks \in {f \in [1..n -> 1..ExecTxKindCount] :
                            \A i \in 1..n : \A j \in 1..n : i <= j => f[i] <= f[j]} } :
            n \in 0..MaxExecTx}

ExecSubs(c) ==
    UNION {{ {ExecSub(c, i, ks[i]) : i \in 1..n} :
                ks \in {f \in [1..n -> 1..ExecSubKindCount] :
                            \A i \in 1..n : \A j \in 1..n : i <= j => f[i] <= f[j]} } :
            n \in 0..MaxExecSubs}

InitExecutive ==
    \E c \in Copies : \E sb \in ExecSubs(c) : \E t \in ExecTxs :
        Fresh(c, Date(2025, 6, 15), Snapshot(BaseUsers, sb, t))

NextExecutive == load_data \/ executive_metrics

SpecExecutive == InitExecutive /\ [][NextExecutive]_vars

\* The six KPIs the callers of executive_metrics read
BundleKeys ==
    {"mrr", "active_subscriptions", "payment_success_rate", "total_revenue",
     "churn_rate", "avg_transaction_value"}

ActiveSubs == {sb \in conn.subscriptions : sb.status = "Active"}

SuccessTxs == {t \in conn.transactions : t.status = "Success"}

\* C15: the bundle of executive_metrics holds all six KPIs, with mrr the sum of
\* mrr_amount over the Active subscriptions and total_revenue the sum of amount
\* over the Success transactions, so reading metrics['total_revenue'] succeeds.
C15_BundleHasSixKpis ==
    (tables_loaded /\ result.op = "executive_metrics")
        => \A b \in result.rows :
              /\ BundleKeys \subseteq DOMAIN b
              /\ b.mrr = Num(SumOver(ActiveSubs, [sb \in ActiveSubs |-> sb.mrr_amount]))
              /\ b.total_revenue = Num(SumOver(SuccessTxs, [t \in SuccessTxs |-> t.amount]))

GatewayTxs ==
    {Block(200, b, "Stripe", "US", Date(2025, 5, 1))
        \cup Block(400, c, "Bitcoin", Null, d) :
        b \in {<<0, 0>>, <<100, 80>>}, c \in PairShapes,
        d \in {Date(2025, 5, 1), Date(2025, 1, 1)}}

InitGateways ==
    \E c \in Copies : \E t \in GatewayTxs :
        Fresh(c, Date(2025, 6, 15), Snapshot(BaseUsers, BaseSubs(c), t))

NextGateways == load_data \/ payment_acceptance_rate_by_gateway \/ detect_gateway_friction

SpecGateways == InitGateways /\ [][NextGateways]_vars

\* The transactions the called operation aggregates: the 90 days up to the
\* latest tx_date in the src copy, the whole table in the top copy
ScopeTxs ==
    IF copy = "top" \/ conn.transactions = {} THEN conn.transactions
    ELSE {t \in conn.transactions :
            WithinDays(t.tx_date, MaxDate({x.tx_date : x \in conn.transactions}),
                       FrictionWindowDays)}

\* The minimum attempt count of the call made last
MinimumAttempts ==
    IF called.op = "detect_gateway_friction"
    THEN (IF copy = "src" THEN FrictionMinAttempts_src ELSE FrictionMinAttempts_top)
    ELSE IF called.arg = <<>> THEN DefaultMinTransactions(copy) ELSE called.arg[1]

RowAttempts(r) ==
    IF result.op = "detect_gateway_friction" THEN r.attempts ELSE r.total_attempts

\* C14: the transactions without a country are kept: per gateway they form the
\* pair labelled 'Unknown', reported with all of them as soon as they reach the
\* minimum attempt count, and no reported pair has a null country.
C14_NullCountryIsUnknown ==
    (tables_loaded
        /\ result.op \in {"payment_acceptance_rate_by_gateway", "detect_gateway_friction"})
        => /\ \A r \in result.rows : r.country # Null
           /\ \A g \in {t.gateway : t \in ScopeTxs} :
                 LET anonymous == {t \in ScopeTxs : t.gateway = g /\ t.country = Null}
                 IN  (anonymous # {} /\ Cardinality(anonymous) >= MinimumAttempts)
                        => \E r \in result.rows :
                              /\ r.gateway = g /\ r.country = "Unknown"
                              /\ RowAttempts(r) = Cardinality(anonymous)

(***************************************************************************)
(* Sessions: load_data on complete and on defective snapshots, followed by *)
(* any sequence of metric calls; with or without the calendar moving on    *)
(***************************************************************************)
SessionUsers == {User(1, Date(2025, 1, 15)), User(2, Date(2025, 4, 2))}

SessionSubs(c) ==
    {Sub(1, 1, 999, "Active", Date(2025, 1, 20)),
     Sub(2, 2, 1999, ChurnedLabel(c), Date(2025, 4, 2))}

SessionTxs ==
    { {Tx(1, 1, "Stripe", "Success", Null, Date(2025, 2, 1), 999, "DE"),
       Tx(2, 1, "Stripe", "Hard Decline", "card_declined", Date(2025, 6, 10), 999, "DE"),
       Tx(3, 2, "Bitcoin", "Success", Null, Date(2025, 5, 30), 1999, Null)},
      {Tx(1, 1, "Stripe", "Success", Null, Date(2025, 1, 25), 999, "US"),
       Tx(2, 2, "Stripe", "Success", Null, Date(2025, 4, 2), 1999, "US")} }

SessionFiles(c) ==
    {[users |-> u, subscriptions |-> s, transactions |-> t, error_code_column |-> e] :
        u \in FileStates(SessionUsers), s \in FileStates(SessionSubs(c)),
        t \in UNION {FileStates(rows) : rows \in SessionTxs}, e \in BOOLEAN}

InitSession ==
    \E c \in Copies : \E f \in SessionFiles(c) : Fresh(c, Date(2025, 6, 15), f)

Metrics ==
    \/ executive_metrics
    \/ calculate_monthly_churn_rate
    \/ payment_acceptance_rate_by_gateway
    \/ detect_gateway_friction
    \/ cohort_retention_analysis
    \/ revenue_reconciliation
    \/ get_sankey_data

NextSession == load_data \/ Metrics

SpecSession == InitSession /\ [][NextSession]_vars

\* CURRENT_DATE at the calls of a session
ClockDates == {Date(2025, 6, 15), Date(2026, 3, 1)}

\* The calendar moves on between two calls
NextDay ==
    /\ today' \in ClockDates \ {today}
    /\ UNCHANGED <<app, copy, files, conn, tables_loaded, called, raised, result, first_call>>

NextClock == load_data \/ Metrics \/ NextDay

SpecClock == InitSession /\ [][NextClock]_vars

MetricOps ==
    {"executive_metrics", "calculate_monthly_churn_rate",
     "payment_acceptance_rate_by_gateway", "detect_gateway_friction",
     "cohort_retention_analysis", "revenue_reconciliation", "get_sankey_data"}

\* C11: a load_data that ends in an exception leaves none of the three tables
\* behind and the loaded flag false.
C11_NoPartialStore ==
    (called.op = "load_data" /\ raised # NoError)
        => (conn.created = {} /\ ~tables_loaded)

\* C12: a metric returns a result table only after load_data has completed
\* successfully on the instance.
C12_NoResultBeforeLoad ==
    result.op \in MetricOps => tables_loaded

\* The operations with a trailing window or a recent-cohort restriction
WindowedOps ==
    {"executive_metrics", "calculate_monthly_churn_rate",
     "payment_acceptance_rate_by_gateway", "detect_gateway_friction",
     "cohort_retention_analysis"}

\* C13: a windowed metric repeated with the same argument on the same loaded
\* store returns the same result whatever the current date of the two runs.
C13_AnchoredToData ==
    [][(/\ tables_loaded
        /\ called'.op \in WindowedOps
        /\ called' = called
        /\ conn' = conn
        /\ raised = NoError /\ raised' = NoError)
            => result' = result]_vars

StartedIn(mth) == {sb \in conn.subscriptions : DateTrunc(sb.start_date) = mth}

\* x is 100 * n / d up to the rounding of a reported percentage (0.005)
IsPctOf(x, n, d) ==
    /\ ~x.isnull
    /\ 200 * Abs(x.num * d - 100 * n * x.den) <= x.den * d

\* C18: a cohort row of calculate_monthly_churn_rate describes the
\* subscriptions whose own start_date lies in cohort_month: total_subs,
\* churned_subs, active_subs and past_due_subs count them overall and per
\* status, churn_rate_pct is churned/total*100 and retention_rate_pct is
\* active/total*100.
C18_CohortByStartDate ==
    (tables_loaded /\ result.op = "calculate_monthly_churn_rate")
        => \A r \in result.rows :
              LET g == StartedIn(r.cohort_month)
                  n(st) == Cardinality({sb \in g : sb.status = st})
              IN  /\ {"total_subs", "churned_subs", "active_subs", "past_due_subs"}
                        \subseteq DOMAIN r
                  /\ r.total_subs = Cardinality(g)
                  /\ r.churned_subs = n(ChurnedLabel(copy))
                  /\ r.active_subs = n("Active")
                  /\ r.past_due_subs = n("Past Due")
                  /\ IsPctOf(r.churn_rate_pct, r.churned_subs, r.total_subs)
                  /\ IsPctOf(r.retention_rate_pct, r.active_subs, r.total_subs)

MaxHistory == 26

\* n consecutive months up to `last`, each with one user signing up and
\* starting a subscription in that month
HistoryUsers(n, last) ==
    {User(i, Date(MonthOfIndex(MonthIndex(last) - (i - 1)).y,
                  MonthOfIndex(MonthIndex(last) - (i - 1)).m, 10)) : i \in 1..n}

HistorySubs(c, n, last, churned) ==
    {Sub(i, i, 999, IF churned /\ i % 2 = 0 THEN ChurnedLabel(c) ELSE "Active",
         Date(MonthOfIndex(MonthIndex(last) - (i - 1)).y,
              MonthOfIndex(MonthIndex(last) - (i - 1)).m, 12)) : i \in 1..n}

InitChurnHistory ==
    \E c \in Copies : \E n \in 0..MaxHistory : \E churned \in BOOLEAN :
        \E last \in {Date(2025, 5, 1), Date(2025, 6, 1), Date(2024, 3, 1)} :
            Fresh(c, Date(2025, 6, 15),
                  Snapshot(HistoryUsers(n, last), HistorySubs(c, n, last, churned), BaseTxs))

NextChurnHistory == load_data \/ calculate_monthly_churn_rate

SpecChurnHistory == InitChurnHistory /\ [][NextChurnHistory]_vars

\* The cohort months of the data (here signup month and start month agree)
CohortMonthsOfData == {DateTrunc(sb.start_date) : sb \in conn.subscriptions}

\* C19: called without argument, calculate_monthly_churn_rate returns at most
\* 12 rows, and the 12 latest cohort months of the data are among them (all of
\* them when there are fewer than 12).
C19_LatestTwelveCohorts ==
    (tables_loaded /\ result.op = "calculate_monthly_churn_rate")
        => /\ Cardinality(result.rows) <= 12
           /\ \A mth \in CohortMonthsOfData :
                 Cardinality({x \in CohortMonthsOfData : MonthIndex(x) > MonthIndex(mth)})
                        < 12
                    => \E r \in result.rows : r.cohort_month = mth

\* The users who signed up in month mth
SignedUpIn(mth) == {u \in conn.users : DateTrunc(u.signup_date) = mth}

\* C20: a retention row belongs to a signup month and an offset 0..12;
\* cohort_size is the number of users who signed up in that month,
\* retained_users the number of them with a Success transaction at the offset,
\* and retention_rate_pct is retained_users / cohort_size * 100.
C20_RetentionBySignupCohort ==
    (tables_loaded /\ result.op = "cohort_retention_analysis")
        => \A r \in result.rows :
              /\ "cohort_size" \in DOMAIN r
              /\ r.months_since_signup \in 0..MaxOffset
              /\ r.cohort_size = Cardinality(SignedUpIn(r.cohort_month))
              /\ r.retained_users
                    = Cardinality(ActiveUsersAt(r.cohort_month, r.months_since_signup))
              /\ 20 * Abs(r.retention_rate_pct.num * r.cohort_size
                            - 100 * r.retained_users * r.retention_rate_pct.den)
                    <= r.retention_rate_pct.den * r.cohort_size

(***************************************************************************)
(* Friction with error codes: one reported pair, and a few failed payments *)
(* of several error codes inside and before the trailing window            *)
(***************************************************************************)
MaxErrTx == 4

\* <<error_code, tx_date>> of a failed payment; the last kind lies before the
\* 90 days that end at the latest tx_date
ErrorKinds ==
    <<  <<"card_declined", Date(2025, 4, 20)>>,
        <<"expired_card", Date(2025, 4, 20)>>,
        <<"fraud_detected", Date(2025, 4, 20)>>,
        <<"insufficient_funds", Date(2025, 4, 20)>>,
        <<"network_error", Date(2025, 1, 1)>> >>

ErrorTx(i, k) ==
    Tx(500 + i, 1, "Stripe", "Hard Decline", ErrorKinds[k][1], ErrorKinds[k][2], 999, "DE")

ErrorTxs ==
    UNION {{ Block(0, <<50, 50>>, "Stripe", "DE", Date(2025, 5, 1))
                \cup {ErrorTx(i, ks[i]) : i \in 1..n} :
                ks \in {f \in [1..n -> 1..Len(ErrorKinds)] :
                            \A i \in 1..n : \A j \in 1..n : i <= j => f[i] <= f[j]} } :
            n \in 0..MaxErrTx}

InitFrictionErrors ==
    \E c \in Copies : \E t \in ErrorTxs :
        Fresh(c, Date(2025, 6, 15), Snapshot(BaseUsers, BaseSubs(c), t))

NextFrictionErrors == load_data \/ detect_gateway_friction

SpecFrictionErrors == InitFrictionErrors /\ [][NextFrictionErrors]_vars

\* The transactions inside the trailing window of the friction analysis
WindowTxs ==
    IF conn.transactions = {} THEN {}
    ELSE {t \in conn.transactions :
            WithinDays(t.tx_date, MaxDate({x.tx_date : x \in conn.transactions}),
                       FrictionWindowDays)}

\* C21: every friction row carries the same baseline, the acceptance rate
\* Success / attempts * 100 over all transactions inside the trailing window,
\* pairs below the minimum attempt count included (up to the rounding of a
\* reported percentage); it is not the average of the per-pair rates.
C21_GlobalBaseline ==
    (tables_loaded /\ result.op = "detect_gateway_friction")
        => \A r \in result.rows :
              IsPctOf(r.baseline_rate_pct, Successes(WindowTxs), Cardinality(WindowTxs))

\* The failed payments of the pair of row r, in the whole table and inside
\* the trailing window
FailedOfPair(txs, r) ==
    {t \in txs : /\ t.gateway = r.gateway
                 /\ CountryLabel(t.country) = CountryLabel(r.country)
                 /\ t.status # "Success"}

CodeCount(txs, r, c) == Cardinality({t \in FailedOfPair(txs, r) : t.error_code = c})

Listed(r) == {r.common_errors[n] : n \in 1..Len(r.common_errors)}

\* C23: common_errors of a friction row lists at most 3 codes, each the
\* error_code of a failed payment of the pair, in order of descending frequency,
\* and no code of the pair left out is more frequent than a listed one.
C23_TopThreeErrors ==
    (tables_loaded /\ result.op = "detect_gateway_friction")
        => \A r \in result.rows :
              LET txs == conn.transactions
                  codes == r.common_errors
              IN  /\ Len(codes) <= 3
                  /\ Listed(r) \subseteq {t.error_code : t \in FailedOfPair(txs, r)}
                  /\ \A m \in 1..Len(codes) : \A n \in 1..Len(codes) :
                        m < n => CodeCount(txs, r, codes[m]) >= CodeCount(txs, r, codes[n])
                  /\ \A c \in {t.error_code : t \in FailedOfPair(txs, r)} \ Listed(r) :
                        \A n \in 1..Len(codes) :
                            CodeCount(txs, r, c) <= CodeCount(txs, r, codes[n])

\* C24: common_errors is a function of the transactions alone: the friction
\* analysis repeated on the same table returns the same rows, error codes of
\* equal frequency included.
C24_DeterministicTies ==
    [][(/\ tables_loaded
        /\ called.op = "detect_gateway_friction"
        /\ called'.op = "detect_gateway_friction"
        /\ conn' = conn
        /\ raised = NoError /\ raised' = NoError)
            => result' = result]_vars

\* C29: every code listed in common_errors is the error_code of a failed
\* payment of the pair inside the trailing window; a code the pair has only
\* before the window start is not listed.
C29_ErrorsInsideWindow ==
    (tables_loaded /\ result.op = "detect_gateway_friction")
        => \A r \in result.rows :
              Listed(r) \subseteq {t.error_code : t \in FailedOfPair(WindowTxs, r)}

(***************************************************************************)
(* Acceptance by gateway                                                   *)
(***************************************************************************)
\* The in-window transactions of a (gateway, country label) pair
WindowPair(g, c) ==
    {t \in WindowTxs : t.gateway = g /\ CountryLabel(t.country) = c}

\* C22: payment_acceptance_rate_by_gateway(m) returns a row for exactly the
\* pairs with at least m transactions inside the trailing 90 days; total_attempts
\* is that count, and the success, soft-decline and hard-decline counts of the
\* row sum to it.
C22_ExactlyQualifyingPairs ==
    (tables_loaded /\ result.op = "payment_acceptance_rate_by_gateway")
        => /\ \A t \in WindowTxs :
                 Cardinality(WindowPair(t.gateway, CountryLabel(t.country))) >= MinimumAttempts
                    => \E r \in result.rows :
                          /\ r.gateway = t.gateway
                          /\ CountryLabel(r.country) = CountryLabel(t.country)
           /\ \A r \in result.rows :
                 LET n == Cardinality(WindowPair(r.gateway, CountryLabel(r.country)))
                 IN  /\ n >= MinimumAttempts
                     /\ r.total_attempts = n
                     /\ {"successful_txs", "soft_declines", "hard_declines"} \subseteq DOMAIN r
                     /\ r.successful_txs + r.soft_declines + r.hard_declines = n

(***************************************************************************)
(* Revenue sides                                                           *)
(***************************************************************************)
\* C25: in every reported month cash_collected is the sum of amount over the
\* Success transactions of the month and booked_revenue the sum of mrr_amount
\* over the subscriptions started in the month that are Active or Past Due.
C25_CashAndBookedSides ==
    (tables_loaded /\ result.op = "revenue_reconciliation")
        => \A r \in result.rows :
              /\ r.cash_collected
                    = Num(SumOver(SuccessIn(r.month), [t \in SuccessIn(r.month) |-> t.amount]))
              /\ r.booked_revenue
                    = Num(SumOver(QualifyingIn(r.month),
                                  [sb \in QualifyingIn(r.month) |-> sb.mrr_amount]))

(***************************************************************************)
(* Executive churn                                                         *)
(***************************************************************************)
\* The subscriptions started on or before the first day of the month before
\* the month of the latest tx_date
StartedByBoundary ==
    IF conn.transactions = {} THEN {}
    ELSE {sb \in conn.subscriptions :
            DateLE(sb.start_date,
                   MinusMonths(DateTrunc(MaxDate({t.tx_date : t \in conn.transactions})), 1))}

\* C26: churn_rate of executive_metrics lies in [0, 100] and is the share of
\* churned subscriptions among the subscriptions started on or before the
\* boundary of the most recent complete month before the latest tx_date (up to
\* the rounding of a reported percentage).
C26_ChurnOfLatestCompleteMonth ==
    (tables_loaded /\ result.op = "executive_metrics")
        => \A b \in result.rows :
              /\ ~b.churn_rate.isnull
              /\ 0 <= b.churn_rate.num
              /\ b.churn_rate.num <= 100 * b.churn_rate.den
              /\ StartedByBoundary # {}
                    => IsPctOf(b.churn_rate,
                               Cardinality({sb \in StartedByBoundary :
                                               sb.status = ChurnedLabel(copy)}),
                               Cardinality(StartedByBoundary))

(***************************************************************************)
(* Funnel scope and labels                                                 *)
(***************************************************************************)
\* C27: with a string filter c a transaction is counted exactly when its
\* country equals c (the empty string included), and transactions without a
\* country are counted only when no filter is given.
C27_ExactCountryMatch ==
    (result.op = "get_sankey_data")
        => LET counted == {t \in conn.transactions :
                              called.arg = Null
                                  \/ (t.country # Null /\ t.country = called.arg)}
           IN  /\ \A e \in result.rows :
                     e.source = "Attempt"
                        => e.value = Cardinality({t \in counted : t.gateway = e.target})
               /\ \A t \in counted :
                     \E e \in result.rows : e.source = "Attempt" /\ e.target = t.gateway

\* The status a funnel label stands for
StatusOfLabel(l) == IF l = "Authorized" THEN "Success" ELSE l

\* C28: for no filter or a country code, every edge leaving a gateway targets
\* Authorized, Soft Decline or Hard Decline with the count of the gateway's
\* in-scope transactions of that status as weight; per gateway the weights
\* leaving it sum to the weight of its 'Attempt' edge, and the weights into
\* 'Authorized' sum to the weight of 'Authorized' -> 'Settled'.
C28_FunnelLabelsAndWeights ==
    (result.op = "get_sankey_data" /\ called.arg # "")
        => LET scope == FilteredScope(conn.transactions, called.arg)
               leaving(g) == {e \in result.rows : e.source = g}
           IN  /\ \A e \in result.rows :
                     e.source \notin {"Attempt", "Authorized"}
                        => /\ e.target \in {"Authorized", "Soft Decline", "Hard Decline"}
                           /\ e.value = Cardinality({t \in scope :
                                            /\ t.gateway = e.source
                                            /\ t.status = StatusOfLabel(e.target)})
               /\ \A a \in leaving("Attempt") :
                     EdgeWeight(leaving(a.target)) = a.value
               /\ EdgeWeight({e \in result.rows : e.target = "Authorized"})
                    = EdgeWeight({e \in result.rows : e.target = "Settled"})

(***************************************************************************)
(* Two invocations of load_analytics on an empty data directory            *)
(***************************************************************************)
InitApp ==
    Fresh("top", Date(2025, 6, 15), Snapshot(BaseUsers, BaseSubs("top"), BaseTxs))

NextApp ==
    \/ exists_lock_file
    \/ exists_data_files
    \/ generate_all_data
    \/ to_csv_open
    \/ to_csv_close
    \/ create_lock_file
    \/ generation_raises
    \/ remove_partial_files
    \/ load_analytics_load_data

SpecApp == InitApp /\ [][NextApp]_vars

\* C30: of two interleaved invocations at most one runs generate_all_data, no
\* invocation loads CSV files that another one is still writing or has removed
\* in its clean-up, and the lock file exists only after a generation that
\* finished without error.
C30_BootstrapIsRaceFree ==
    /\ Cardinality({i \in Invocations : app.generation[i] # "none"}) <= 1
    /\ \A i \in Invocations : app.loaded[i] \notin {"being written", "missing"}
    /\ app.lock_file => \E i \in Invocations : app.generation[i] = "finished"

====
